---- MODULE Spec2Model ----
(***************************************************************************)
(* Field-boundary drawing and editing of MapComponent.tsx.                 *)
(*                                                                         *)
(* The state is the React state of MapComponent (isDrawingMode,            *)
(* fieldPolygons), the closure variables of one setupAutoClosePolygon call *)
(* (tempPolyline, vertices, vertexMarkers, edgeMarkers and the two map     *)
(* listeners) and the pointer gesture the map library is delivering.       *)
(* areaUpdates records the calls of the host's onAreaUpdate, surface how   *)
(* many visuals of the session have their map set (each setMap(null) and   *)
(* each new visual is counted where the code has it), touchedEdges the     *)
(* edges whose markers the last handler took off the map or made.          *)
(*                                                                         *)
(* Conventions.  Indices stored in the state are the 0-based indices of    *)
(* the code; At/SetAt/InsertAt convert to the 1-based sequences of TLA+.   *)
(* A LatLng is <<lat, lng>> on an integer grid; one grid unit is           *)
(* UnitMetres long.  computeDistanceBetween is a library call: it is       *)
(* modelled by the taxicab length of the edge, which is 0 exactly for      *)
(* equal points and scales linearly along a ray like the planar            *)
(* interpolation of handleDistanceChange assumes.  NaN is the IEEE NaN of  *)
(* the JavaScript arithmetic.  A missing e.latLng is NoLatLng.             *)
(*                                                                         *)
(* The events are the ones MapComponent registers a handler for.  The      *)
(* handles the map library itself draws on an editable shape have no       *)
(* handler in this file and are not part of Next; SpecRemoval adds the     *)
(* removal of a path entry they can cause.                                 *)
(***************************************************************************)
EXTENDS Integers, Sequences, FiniteSets, TLC

\* ---------------------------------------------------------------- bounds
\* longest ring (open or closed) the model lets the user build
MaxVerts == 4
\* number of events dispatched in one run
MaxEvents == 6
\* number of events dispatched in one run of the long specification
MaxLongEvents == 8
\* number of events dispatched in one run of the specification of the shapes
MaxShapeEvents == 10
\* longest edge, in tenths of a metre, a label is formatted for on its own
MaxDistance == 12000
\* largest grid coordinate a distance edit may produce
MaxCoord == 4

\* ---------------------------------------------------------------- values
Null == <<>>
Some(x) == <<x>>
NoLatLng == <<>>
Undefined == -1
NaN == -1000

UnitMetres == 500

\* points the pointer can be at (click, drag, drag-end, edge-click)
InputPoints == {<<0, 0>>, <<0, 2>>, <<2, 2>>}
\* numbers the user can type into a distance label; NaN is an unparsable text
TypedValues == {0, 1, 2, 1000, NaN}

Abs(x) == IF x < 0 THEN -x ELSE x
Min(a, b) == IF a < b THEN a ELSE b

IsNaNPoint(p) == p[1] = NaN \/ p[2] = NaN

\* ---------------------------------------------------------------- arrays
At(s, i) == s[i + 1]
SetAt(s, i, x) == [s EXCEPT ![i + 1] = x]
\* Array.prototype.splice(i, 0, x) and MVCArray.insertAt(i, x)
InsertAt(s, i, x) ==
  LET k == Min(i, Len(s))
  IN SubSeq(s, 1, k) \o <<x>> \o SubSeq(s, k + 1, Len(s))

\* MVCArray.removeAt(i)
RemoveAt(s, i) == SubSeq(s, 1, i) \o SubSeq(s, i + 2, Len(s))

\* an index captured when the marker was made: the markers are made in list
\* order as long as no vertex is inserted
IndexOf_CapturedAtCreation(ms, id) ==
  IF \E k \in 1..Len(ms) : ms[k].id = id THEN id - 1 ELSE -1

\* vertexMarkers.indexOf(marker): 0-based position of the marker, -1 if absent
IndexOf(ms, id) ==
  IF \E k \in 1..Len(ms) : ms[k].id = id
  THEN (CHOOSE k \in 1..Len(ms) : ms[k].id = id) - 1
  ELSE -1

\* ---------------------------------------------------------------- geo math
\* google.maps.geometry.spherical.computeDistanceBetween(p1, p2), in metres
Dist(p1, p2) ==
  IF IsNaNPoint(p1) \/ IsNaNPoint(p2) THEN NaN
  ELSE (Abs(p1[1] - p2[1]) + Abs(p1[2] - p2[2])) * UnitMetres

\* (a + b) / 2 of one coordinate
MidCoord(a, b) == IF a = NaN \/ b = NaN THEN NaN ELSE (a + b) \div 2

Midpoint(p1, p2) == <<MidCoord(p1[1], p2[1]), MidCoord(p1[2], p2[2])>>

\* tenths of a metre in a metre: the unit FormatDistance takes lengths in
DeciMetres == 10

\* a label that still shows 1000 m in metres
FormatDistance_KmAbove1000(d) ==
  IF d <= 1000 * DeciMetres
  THEN {[num |-> (d + 5) \div 10, unit |-> "m"]}
  ELSE {[num |-> (d + 50) \div 100, unit |-> "km"]}

\* distance < 1000 ? `${Math.round(distance)}m` : `${(distance/1000).toFixed(2)}km`
\* for a distance of d tenths of a metre; the km number is kept in hundredths
\* of a kilometre.  Math.round rounds a half up.  toFixed(2) rounds the
\* binary value of distance / 1000, so that a decimal half goes either way.
FormatDistance(d) ==
  IF d < 1000 * DeciMetres
  THEN {[num |-> (d + 5) \div 10, unit |-> "m"]}
  ELSE IF d % 100 = 50
       THEN {[num |-> d \div 100, unit |-> "km"],
             [num |-> (d \div 100) + 1, unit |-> "km"]}
       ELSE {[num |-> (d + 50) \div 100, unit |-> "km"]}

\* the label of a distance of a whole number of metres, or of NaN
DistanceText(distance) ==
  IF distance = NaN THEN [num |-> NaN, unit |-> "km"]
  ELSE CHOOSE text \in FormatDistance(distance * DeciMetres) : TRUE

\* a + (b - a) * (newDistance / currentDistance) of one coordinate
ScaleCoord(a, b, newDistance, currentDistance) ==
  IF a = NaN \/ b = NaN \/ newDistance = NaN \/ currentDistance = NaN
     \/ currentDistance = 0
  THEN NaN
  ELSE a + ((b - a) * newDistance) \div currentDistance

NewPosition(p1, p2, newDistance) ==
  LET currentDistance == Dist(p1, p2)
  IN <<ScaleCoord(p1[1], p2[1], newDistance, currentDistance),
       ScaleCoord(p1[2], p2[2], newDistance, currentDistance)>>

\* the grid represents the result of the edit exactly and inside the box
Representable(p1, p2, newDistance) ==
  LET currentDistance == Dist(p1, p2)
      q == NewPosition(p1, p2, newDistance)
  IN IF IsNaNPoint(q) THEN TRUE
     ELSE /\ ((p2[1] - p1[1]) * newDistance) % currentDistance = 0
          /\ ((p2[2] - p1[2]) * newDistance) % currentDistance = 0
          /\ q[1] \in 0..MaxCoord
          /\ q[2] \in 0..MaxCoord

\* this.content.includes('km') ? 'km' : 'm'
UnitOf(content) == IF content.unit = "km" THEN "km" ELSE "m"

\* a 'change' listener that hands the typed number over as metres
Meters_NoConversion(unit, newValue) == newValue

\* unit === 'km' ? newValue * 1000 : newValue
Meters(unit, newValue) == IF unit = "km" THEN newValue * 1000 ELSE newValue

\* a path that is closed as soon as the ring has two vertices
ClosedPath_FromTwoVertices(vs) == IF Len(vs) >= 2 THEN Append(vs, vs[1]) ELSE vs

\* const path = vertices.slice(); if (vertices.length >= 3) path.push(vertices[0])
ClosedPath(vs) == IF Len(vs) >= 3 THEN Append(vs, vs[1]) ELSE vs

\* sum over the first k edges of the ring of the cross products of their ends
RECURSIVE CrossSum(_, _)
CrossSum(path, k) ==
  IF k = 0 THEN 0
  ELSE LET p == path[k]
           q == path[(k % Len(path)) + 1]
       IN CrossSum(path, k - 1) + (p[1] * q[2] - q[1] * p[2])

\* google.maps.geometry.spherical.computeArea(path), in square metres: the
\* unsigned area the ring encloses, the last vertex joined to the first
ComputeArea(path) ==
  IF \E k \in 1..Len(path) : IsNaNPoint(path[k]) THEN NaN
  ELSE (Abs(CrossSum(path, Len(path))) * UnitMetres * UnitMetres) \div 2

\* area / 10000, kept in hundredths of a hectare
Hectares(area) == IF area = NaN THEN NaN ELSE (area * 100) \div 10000

\* sum + x of the reduce
Plus(sum, x) == IF sum = NaN \/ x = NaN THEN NaN ELSE sum + x

\* fieldPolygons.reduce((sum, polygon) => sum + area / 10000, 0) over the first
\* k polygons
RECURSIVE TotalAreaUpTo(_, _)
TotalAreaUpTo(polygons, k) ==
  IF k = 0 THEN 0
  ELSE Plus(TotalAreaUpTo(polygons, k - 1),
            Hectares(ComputeArea(polygons[k].path)))

\* a reduce that keeps only the area of the last polygon
TotalArea_LastShapeOnly(polygons) ==
  IF Len(polygons) = 0 THEN 0
  ELSE Hectares(ComputeArea(polygons[Len(polygons)].path))

TotalArea(polygons) == TotalAreaUpTo(polygons, Len(polygons))


\* ---------------------------------------------------------------- state
VARIABLES
  isDrawingMode,        \* useState(false)
  fieldPolygons,        \* useState<google.maps.Polygon[]>([])
  areaUpdates,          \* the arguments of the calls of onAreaUpdate so far
  tempPolyline,         \* Null, or Some(path) of the polyline on the map
  vertices,             \* LatLng[] of the open ring
  vertexMarkers,        \* markers of the open ring, in list order
  edgeMarkers,          \* per edge: the DistanceOverlay and the midpoint marker
  mapClickListener,     \* TRUE while the 'click' listener is registered
  mapDblClickListener,  \* TRUE while the 'dblclick' listener is registered
  nextId,               \* identity given to the next marker object created
  surface,              \* how many visuals of the session have the map set
  touchedEdges,         \* edges whose markers the last handler removed or made
  isMounted,            \* FALSE once React has unmounted the component
  label,                \* a distance and its label text, formatted on its own
  drag,                 \* the marker drag gesture the pointer is in
  lastEvent,            \* the event whose handler returned last
  budget                \* number of events the run may still dispatch

closure == <<tempPolyline, vertices, vertexMarkers, edgeMarkers,
             mapClickListener, mapDblClickListener, nextId>>
vars == <<isDrawingMode, fieldPolygons, areaUpdates, tempPolyline, vertices,
          vertexMarkers, edgeMarkers, mapClickListener, mapDblClickListener,
          nextId, surface, touchedEdges, isMounted, label, drag, lastEvent,
          budget>>

NoDrag == [kind |-> "none", target |-> Undefined]

\* an event as its handler receives it: e.latLng, the shape and the marker,
\* edge or list position it is delivered to, e.vertex, the number typed and the menu
\* option chosen
Event(type, latLng, f, index, vertex, value, option) ==
  [type |-> type, latLng |-> latLng, f |-> f, index |-> index,
   vertex |-> vertex, value |-> value, option |-> option]

\* the event loop hands one more event to its handler; the handlers of an
\* unmounted component get no events
Dispatch(event) ==
  /\ isMounted
  /\ isMounted' = (event.type # "unmount")
  /\ budget > 0
  /\ budget' = budget - 1
  /\ lastEvent' = event
  /\ UNCHANGED label

\* ---------------------------------------------------------------- markers
\* new google.maps.Marker({position, draggable: true}) of the open ring, with
\* the dragMarker variable its listeners close over
NewVertexMarker(id, position) ==
  [id |-> id, position |-> position, opacity |-> 1, dragMarker |-> Null]

\* one iteration of the loop of updateEdgeMarkers: the overlay and the
\* midpoint marker of edge i, with p1, p2 and i as their handlers capture them
EdgeMarkerFor(vs, i) ==
  LET p1 == At(vs, i)
      p2 == At(vs, (i + 1) % Len(vs))
      midpoint == Midpoint(p1, p2)
  IN [i |-> i, p1 |-> p1, p2 |-> p2,
      overlay |-> [position |-> midpoint,
                   content |-> DistanceText(Dist(p1, p2))],
      marker |-> [position |-> midpoint, opacity |-> 1,
                  tempVertexIndex |-> Undefined,
                  originalPosition |-> Null, originalVertices |-> Null],
      dragMarker |-> Null]

\* an updateEdgeMarkers that makes edge markers for a ring of one vertex
UpdateEdgeMarkers_FromOneVertex(vs) ==
  IF Len(vs) >= 1 THEN [e \in 1..Len(vs) |-> EdgeMarkerFor(vs, e - 1)]
  ELSE <<>>

\* updateEdgeMarkers(): the old list is taken off the map and replaced
UpdateEdgeMarkers(vs) ==
  IF Len(vs) >= 2 THEN [e \in 1..Len(vs) |-> EdgeMarkerFor(vs, e - 1)]
  ELSE <<>>

\* number of drag-indicator markers the dragMarker variables of these
\* markers refer to
DragMarkers(ms) == Cardinality({k \in 1..Len(ms) : ms[k].dragMarker # Null})

\* the edges whose markers a handler has taken off the map (the list old) or
\* made (the list new)
Touched(old, new) ==
  {old[e].i : e \in 1..Len(old)} \cup {new[e].i : e \in 1..Len(new)}

\* the surface after updateEdgeMarkers has taken the edge markers of the list
\* old off the map and put the ones of the list new on it; each entry stands
\* for the overlay and the midpoint marker of one edge
WithEdgeMarkers(s, old, new) ==
  [s EXCEPT !.edgeMarkers = @ - Len(old) + Len(new)]

\* a clean-up that leaves the vertex markers of the session on the map
DblClickCleanUp_KeepsVertexMarkers(s, polyline, vms, ems) ==
  [s EXCEPT !.polylines = @ - (IF polyline # Null THEN 1 ELSE 0),
            !.edgeMarkers = @ - Len(ems)]

\* the surface after the 'dblclick' listener has cleaned up: the polyline,
\* the vertex markers and the edge markers get setMap(null)
DblClickCleanUp(s, polyline, vms, ems) ==
  [s EXCEPT !.polylines = @ - (IF polyline # Null THEN 1 ELSE 0),
            !.vertexMarkers = @ - Len(vms),
            !.edgeMarkers = @ - Len(ems)]

\* a cleanup that forgets the edge markers
EffectCleanup_KeepsEdgeMarkers(s, polyline, vms, ems) ==
  [s EXCEPT !.polylines = @ - (IF polyline # Null THEN 1 ELSE 0),
            !.vertexMarkers = @ - Len(vms)]

\* the surface after the cleanup function of the effect: the polyline, the
\* vertex markers and the edge markers get setMap(null)
EffectCleanup(s, polyline, vms, ems) ==
  [s EXCEPT !.polylines = @ - (IF polyline # Null THEN 1 ELSE 0),
            !.vertexMarkers = @ - Len(vms),
            !.edgeMarkers = @ - Len(ems)]

\* the marker onPolygonComplete (or its insert_at listener) creates for path
\* index i; its drag listener closes over i
NewPolygonMarker(i, vertex) == [index |-> i, position |-> vertex]

\* addEdgeMarkers(): removes the old edge markers and stores the new list
AddEdgeMarkers(path) == <<>>

\* a 'dblclick' listener that appends one more vertex before it closes the ring
CompletedPolygon_ExtraVertex(path) ==
  LET ring == Append(path, path[Len(path)])
  IN [path |-> ring,
      vertexMarkers |-> [k \in 1..Len(ring) |-> NewPolygonMarker(k - 1, ring[k])],
      edgeMarkers |-> AddEdgeMarkers(ring)]

\* onPolygonComplete(polygon), without the two state setters
CompletedPolygon(path) ==
  [path |-> path,
   vertexMarkers |-> [k \in 1..Len(path) |-> NewPolygonMarker(k - 1, path[k])],
   edgeMarkers |-> AddEdgeMarkers(path)]

\* a polygon made from the closed path of the polyline
PolygonPaths_Closed(vs) == ClosedPath(vs)

\* new google.maps.Polygon({paths: vertices, ...})
PolygonPaths(vs) == vs

\* a setter that puts the new polygon in front of the earlier ones
SetFieldPolygons_Prepend(prev, polygon) == <<polygon>> \o prev

\* setFieldPolygons(prev => [...prev, polygon])
SetFieldPolygons(prev, polygon) == Append(prev, polygon)

\* a 'dblclick' listener that closes a ring of two vertices
CanClose_TwoVertices(vs) == Len(vs) >= 2

\* if (vertices.length >= 3) of the 'dblclick' listener
CanClose(vs) == Len(vs) >= 3

\* an onClick that inserts before the first vertex of the clicked edge
EdgeInsertIndex_AtEdge(edge) == edge

\* path.insertAt(e.edge + 1, e.latLng)
EdgeInsertIndex(edge) == edge + 1

\* a switch whose case 'import' falls through to case 'field'
DrawingModeChanges_ImportFallsThrough(option, drawing) ==
  option \in {"import", "field"} /\ ~drawing

\* a 'field' option that runs the effect again whatever the mode is
DrawingModeChanges_OnEveryField(option, drawing) == option = "field"

\* setIsDrawingMode(true) changes the state, so that the effect with
\* dependency isDrawingMode runs again
DrawingModeChanges(option, drawing) == option = "field" /\ ~drawing

\* ---------------------------------------------------------------- Init
Mounted ==
  /\ isDrawingMode = FALSE
  /\ fieldPolygons = <<>>
  /\ areaUpdates = <<>>
  /\ tempPolyline = Null
  /\ vertices = <<>>
  /\ vertexMarkers = <<>>
  /\ edgeMarkers = <<>>
  /\ mapClickListener = FALSE
  /\ mapDblClickListener = FALSE
  /\ nextId = 1
  /\ surface = [polylines |-> 0, vertexMarkers |-> 0, edgeMarkers |-> 0,
                dragMarkers |-> 0]
  /\ touchedEdges = {}
  /\ isMounted = TRUE
  /\ drag = NoDrag
  /\ lastEvent = Event("none", NoLatLng, 0, Undefined, Undefined, Undefined, "")

Init == Mounted /\ label = Null /\ budget = MaxEvents

\* the same component, observed for longer runs
InitLong == Mounted /\ label = Null /\ budget = MaxLongEvents

\* the same component, observed while the user draws and edits shapes
InitShapes == Mounted /\ label = Null /\ budget = MaxShapeEvents

\* an edge of any length up to MaxDistance whose label is to be formatted
InitFormat ==
  /\ Mounted
  /\ budget = 0
  /\ label \in {[distance |-> d, text |-> Null] : d \in 0..MaxDistance}

\* a setupAutoClosePolygon call that starts drawing whatever the mode is
FreshClosure_StartsDrawing ==
  /\ tempPolyline' = Some(<<>>)
  /\ vertices' = <<>>
  /\ vertexMarkers' = <<>>
  /\ edgeMarkers' = <<>>
  /\ mapClickListener' = TRUE
  /\ mapDblClickListener' = TRUE
  /\ nextId' = 1

\* the variables of a new setupAutoClosePolygon call while isDrawingMode is
\* false: startDrawing is not called
FreshClosure ==
  /\ tempPolyline' = Null
  /\ vertices' = <<>>
  /\ vertexMarkers' = <<>>
  /\ edgeMarkers' = <<>>
  /\ mapClickListener' = FALSE
  /\ mapDblClickListener' = FALSE
  /\ nextId' = 1

\* a startDrawing that goes on with the vertices the last closed session left
StartDrawing_KeepsLeftOverVertices ==
  /\ tempPolyline' = Some(<<>>)
  /\ vertices' = IF fieldPolygons # <<>>
                 THEN fieldPolygons[Len(fieldPolygons)].path ELSE <<>>
  /\ vertexMarkers' = <<>>
  /\ edgeMarkers' = <<>>
  /\ mapClickListener' = TRUE
  /\ mapDblClickListener' = TRUE
  /\ nextId' = 1
  /\ surface' = [surface EXCEPT !.polylines = @ + 1]

\* startDrawing() in a new closure
StartDrawing ==
  /\ tempPolyline' = Some(<<>>)
  /\ vertices' = <<>>
  /\ vertexMarkers' = <<>>
  /\ edgeMarkers' = <<>>
  /\ mapClickListener' = TRUE
  /\ mapDblClickListener' = TRUE
  /\ nextId' = 1
  /\ surface' = [surface EXCEPT !.polylines = @ + 1]

\* the effect with dependencies [fieldPolygons, onAreaUpdate], run after a
\* render in which the fieldPolygons state is a new array; the host passes
\* the same onAreaUpdate on every render
AreaEffect ==
  areaUpdates' = IF Len(fieldPolygons') > 0
                 THEN Append(areaUpdates, TotalArea(fieldPolygons'))
                 ELSE areaUpdates

\* ---------------------------------------------------------------- actions
\* CreateMenu option.  'field' sets isDrawingMode; when that changes the value
\* the effect runs setupAutoClosePolygon again, which starts drawing.
HandleCreateOption(option) ==
  /\ drag.kind = "none"
  /\ Dispatch(Event("createOption", NoLatLng, 0, Undefined, Undefined, Undefined, option))
  /\ UNCHANGED <<fieldPolygons, areaUpdates, drag>>
  /\ touchedEdges' = {}
  /\ IF DrawingModeChanges(option, isDrawingMode)
     THEN /\ isDrawingMode' = TRUE
          /\ StartDrawing
     ELSE UNCHANGED <<isDrawingMode, closure, surface>>

\* a click on the map: the library calls the 'click' listener of startDrawing
\* if it is registered, and nothing of the component if it is not
MapClick(latLng) ==
  /\ drag.kind = "none"
  /\ Dispatch(Event("click", latLng, 0, Undefined, Undefined, Undefined, ""))
  /\ UNCHANGED <<isDrawingMode, fieldPolygons, areaUpdates, drag,
                 mapClickListener, mapDblClickListener>>
  /\ IF ~mapClickListener \/ latLng = NoLatLng \/ tempPolyline = Null
     THEN /\ touchedEdges' = {}
          /\ UNCHANGED <<tempPolyline, vertices, vertexMarkers, edgeMarkers,
                         nextId, surface>>
     ELSE /\ Len(vertices) < MaxVerts
          /\ vertices' = Append(vertices, latLng)
          /\ vertexMarkers' = Append(vertexMarkers, NewVertexMarker(nextId, latLng))
          /\ nextId' = nextId + 1
          /\ tempPolyline' = Some(ClosedPath(vertices'))
          /\ edgeMarkers' = UpdateEdgeMarkers(vertices')
          /\ surface' = WithEdgeMarkers(
                          [surface EXCEPT !.vertexMarkers = @ + 1],
                          edgeMarkers, edgeMarkers')
          /\ touchedEdges' = Touched(edgeMarkers, edgeMarkers')

\* a double-click on the map: the library calls the 'dblclick' listener of
\* startDrawing if it is registered, with onPolygonComplete and the effect
\* that follows setIsDrawingMode(false), and nothing of the component if it
\* is not
MapDblClick ==
  /\ drag.kind = "none"
  /\ Dispatch(Event("dblclick", NoLatLng, 0, Undefined, Undefined, Undefined, ""))
  /\ UNCHANGED drag
  /\ IF mapDblClickListener /\ CanClose(vertices)
     THEN /\ fieldPolygons' = SetFieldPolygons(fieldPolygons,
                              CompletedPolygon(PolygonPaths(vertices)))
          /\ isDrawingMode' = FALSE
          /\ FreshClosure
          /\ surface' = DblClickCleanUp(surface, tempPolyline, vertexMarkers,
                                        edgeMarkers)
          /\ touchedEdges' = Touched(edgeMarkers, <<>>)
          /\ AreaEffect
     ELSE /\ touchedEdges' = {}
          /\ UNCHANGED <<isDrawingMode, fieldPolygons, areaUpdates, closure,
                         surface>>

\* 'dragstart' of a vertex marker of the open ring
VertexDragStart(id) ==
  /\ drag.kind = "none"
  /\ \E k \in 1..Len(vertexMarkers) :
       /\ vertexMarkers[k].id = id
       /\ vertexMarkers' = [vertexMarkers EXCEPT
            ![k].dragMarker = Some(vertexMarkers[k].position),
            ![k].opacity = 0]
  /\ drag' = [kind |-> "vertex", target |-> id]
  /\ surface' = [surface EXCEPT !.dragMarkers = @ + 1]
  /\ touchedEdges' = {}
  /\ Dispatch(Event("vertexDragStart", NoLatLng, 0, id, Undefined, Undefined, ""))
  /\ UNCHANGED <<isDrawingMode, fieldPolygons, areaUpdates, tempPolyline, vertices,
                 edgeMarkers, mapClickListener, mapDblClickListener, nextId>>

\* 'drag' of a vertex marker of the open ring; the library has moved the
\* dragged marker to e.latLng
VertexDrag(latLng) ==
  /\ drag.kind = "vertex"
  /\ Dispatch(Event("vertexDrag", latLng, 0, drag.target, Undefined, Undefined, ""))
  /\ UNCHANGED <<isDrawingMode, fieldPolygons, areaUpdates, drag, mapClickListener,
                 mapDblClickListener, nextId>>
  /\ IF latLng = NoLatLng
     THEN /\ touchedEdges' = {}
          /\ UNCHANGED <<tempPolyline, vertices, vertexMarkers, edgeMarkers,
                         surface>>
     ELSE LET index == IndexOf(vertexMarkers, drag.target)
              moved == [k \in 1..Len(vertexMarkers) |->
                          IF vertexMarkers[k].id = drag.target
                          THEN [vertexMarkers[k] EXCEPT !.position = latLng]
                          ELSE vertexMarkers[k]]
          IN IF index # -1
             THEN /\ vertices' = SetAt(vertices, index, latLng)
                  /\ vertexMarkers' = [moved EXCEPT
                       ![index + 1].dragMarker =
                          IF @ # Null THEN Some(latLng) ELSE @]
                  /\ tempPolyline' = IF tempPolyline # Null
                                     THEN Some(ClosedPath(vertices'))
                                     ELSE tempPolyline
                  /\ edgeMarkers' = UpdateEdgeMarkers(vertices')
                  /\ surface' = WithEdgeMarkers(surface, edgeMarkers,
                                                edgeMarkers')
                  /\ touchedEdges' = Touched(edgeMarkers, edgeMarkers')
             ELSE /\ vertexMarkers' = moved
                  /\ touchedEdges' = {}
                  /\ UNCHANGED <<tempPolyline, vertices, edgeMarkers, surface>>

\* 'dragend' of a vertex marker of the open ring
VertexDragEnd ==
  /\ drag.kind = "vertex"
  /\ vertexMarkers' = [k \in 1..Len(vertexMarkers) |->
                         IF vertexMarkers[k].id = drag.target
                         THEN [vertexMarkers[k] EXCEPT !.dragMarker = Null,
                                                       !.opacity = 1]
                         ELSE vertexMarkers[k]]
  /\ drag' = NoDrag
  /\ surface' = [surface EXCEPT !.dragMarkers =
                   @ - DragMarkers(vertexMarkers) + DragMarkers(vertexMarkers')]
  /\ touchedEdges' = {}
  /\ Dispatch(Event("vertexDragEnd", NoLatLng, 0, drag.target, Undefined, Undefined, ""))
  /\ UNCHANGED <<isDrawingMode, fieldPolygons, areaUpdates, tempPolyline, vertices,
                 edgeMarkers, mapClickListener, mapDblClickListener, nextId>>

\* 'dragstart' of the midpoint marker of edgeMarkers[e]
EdgeDragStart(e) ==
  /\ drag.kind = "none"
  /\ e \in 1..Len(edgeMarkers)
  /\ Len(vertices) < MaxVerts
  /\ LET em == edgeMarkers[e]
         position == em.marker.position
     IN /\ edgeMarkers' = [edgeMarkers EXCEPT
             ![e].dragMarker = Some(position),
             ![e].marker = [opacity |-> 0,
                            position |-> position,
                            originalPosition |-> Some(position),
                            originalVertices |-> Some(vertices),
                            tempVertexIndex |-> em.i + 1]]
        /\ vertices' = InsertAt(vertices, em.i + 1, position)
  /\ drag' = [kind |-> "edge", target |-> e]
  /\ surface' = [surface EXCEPT !.dragMarkers = @ + 1]
  /\ touchedEdges' = {}
  /\ Dispatch(Event("edgeDragStart", NoLatLng, 0, e, Undefined, Undefined, ""))
  /\ UNCHANGED <<isDrawingMode, fieldPolygons, areaUpdates, tempPolyline, vertexMarkers,
                 mapClickListener, mapDblClickListener, nextId>>

\* a 'drag' listener of the midpoint marker that rebuilds the edge markers on
\* every step
EdgeDrag_RebuildsEdgeMarkers(latLng) ==
  /\ drag.kind = "edge"
  /\ Dispatch(Event("edgeDrag", latLng, 0, drag.target, Undefined, Undefined, ""))
  /\ UNCHANGED <<isDrawingMode, fieldPolygons, areaUpdates, vertexMarkers, drag,
                 mapClickListener, mapDblClickListener, nextId>>
  /\ LET e == drag.target
         tempVertexIndex == edgeMarkers[e].marker.tempVertexIndex
     IN IF latLng = NoLatLng \/ tempPolyline = Null
           \/ tempVertexIndex = Undefined
        THEN /\ touchedEdges' = {}
             /\ UNCHANGED <<tempPolyline, vertices, edgeMarkers, surface>>
        ELSE /\ vertices' = SetAt(vertices, tempVertexIndex, latLng)
             /\ tempPolyline' = Some(ClosedPath(vertices'))
             /\ edgeMarkers' = UpdateEdgeMarkers(vertices')
             /\ surface' = WithEdgeMarkers(surface, edgeMarkers, edgeMarkers')
             /\ touchedEdges' = Touched(edgeMarkers, edgeMarkers')

\* 'drag' of the midpoint marker; the library has moved the marker to e.latLng
EdgeDrag(latLng) ==
  /\ drag.kind = "edge"
  /\ Dispatch(Event("edgeDrag", latLng, 0, drag.target, Undefined, Undefined, ""))
  /\ UNCHANGED <<isDrawingMode, fieldPolygons, areaUpdates, vertexMarkers, drag,
                 mapClickListener, mapDblClickListener, nextId, surface>>
  /\ touchedEdges' = {}
  /\ LET e == drag.target
         tempVertexIndex == edgeMarkers[e].marker.tempVertexIndex
     IN IF latLng = NoLatLng \/ tempPolyline = Null
        THEN /\ edgeMarkers' = IF latLng = NoLatLng THEN edgeMarkers
                               ELSE [edgeMarkers EXCEPT ![e].marker.position = latLng]
             /\ UNCHANGED <<tempPolyline, vertices>>
        ELSE /\ edgeMarkers' = [edgeMarkers EXCEPT
                  ![e].marker.position = latLng,
                  ![e].dragMarker = IF @ # Null THEN Some(latLng) ELSE @]
             /\ IF tempVertexIndex # Undefined
                THEN /\ vertices' = SetAt(vertices, tempVertexIndex, latLng)
                     /\ tempPolyline' = Some(ClosedPath(vertices'))
                ELSE UNCHANGED <<tempPolyline, vertices>>

\* 'dragend' of the midpoint marker
EdgeDragEnd(latLng) ==
  /\ drag.kind = "edge"
  /\ drag' = NoDrag
  /\ Dispatch(Event("edgeDragEnd", latLng, 0, drag.target, Undefined, Undefined, ""))
  /\ UNCHANGED <<isDrawingMode, fieldPolygons, areaUpdates, mapClickListener,
                 mapDblClickListener>>
  /\ LET e == drag.target
         tempVertexIndex == edgeMarkers[e].marker.tempVertexIndex
         released == [edgeMarkers EXCEPT ![e].dragMarker = Null,
                                         ![e].marker.opacity = 1]
     IN IF latLng = NoLatLng \/ tempVertexIndex = Undefined
        THEN /\ edgeMarkers' = released
             /\ surface' = [surface EXCEPT !.dragMarkers =
                              @ - DragMarkers(edgeMarkers) + DragMarkers(released)]
             /\ touchedEdges' = {}
             /\ UNCHANGED <<tempPolyline, vertices, vertexMarkers, nextId>>
        ELSE /\ vertices' = SetAt(vertices, tempVertexIndex, latLng)
             /\ vertexMarkers' = InsertAt(vertexMarkers, tempVertexIndex,
                                          NewVertexMarker(nextId, latLng))
             /\ nextId' = nextId + 1
             /\ tempPolyline' = IF tempPolyline # Null
                                THEN Some(ClosedPath(vertices'))
                                ELSE tempPolyline
             /\ edgeMarkers' = UpdateEdgeMarkers(vertices')
             /\ surface' = WithEdgeMarkers(
                             [surface EXCEPT
                                !.dragMarkers = @ - DragMarkers(edgeMarkers)
                                                  + DragMarkers(released),
                                !.vertexMarkers = @ + 1],
                             edgeMarkers, edgeMarkers')
             /\ touchedEdges' = Touched(edgeMarkers, edgeMarkers')

\* a 'change' listener that calls onDistanceChange without the isNaN test
DistanceSubmit_NoNaNTest(e, newValue) ==
  /\ drag.kind = "none"
  /\ e \in 1..Len(edgeMarkers)
  /\ Dispatch(Event("distanceSubmit", NoLatLng, 0, e, Undefined, newValue, ""))
  /\ UNCHANGED <<isDrawingMode, fieldPolygons, areaUpdates, drag, mapClickListener,
                 mapDblClickListener, nextId>>
  /\ LET em == edgeMarkers[e]
         unit == UnitOf(em.overlay.content)
         meters == IF newValue = NaN THEN NaN ELSE Meters(unit, newValue)
         newPosition == NewPosition(em.p1, em.p2, meters)
         far == (em.i + 1) % Len(vertices)
     IN /\ Representable(em.p1, em.p2, meters)
        /\ vertices' = SetAt(vertices, far, newPosition)
        /\ IF far < Len(vertexMarkers)
           THEN /\ vertexMarkers' = [vertexMarkers EXCEPT
                     ![far + 1].position = newPosition]
                /\ tempPolyline' = IF tempPolyline # Null
                                   THEN Some(ClosedPath(vertices'))
                                   ELSE tempPolyline
                /\ edgeMarkers' = UpdateEdgeMarkers(vertices')
                /\ surface' = WithEdgeMarkers(surface, edgeMarkers,
                                              edgeMarkers')
                /\ touchedEdges' = Touched(edgeMarkers, edgeMarkers')
           ELSE /\ touchedEdges' = {}
                /\ UNCHANGED <<tempPolyline, vertexMarkers, edgeMarkers,
                               surface>>

\* 'change' of the input of the DistanceOverlay of edgeMarkers[e], and the
\* handleDistanceChange it calls
DistanceSubmit(e, newValue) ==
  /\ drag.kind = "none"
  /\ e \in 1..Len(edgeMarkers)
  /\ Dispatch(Event("distanceSubmit", NoLatLng, 0, e, Undefined, newValue, ""))
  /\ UNCHANGED <<isDrawingMode, fieldPolygons, areaUpdates, drag, mapClickListener,
                 mapDblClickListener, nextId>>
  /\ LET em == edgeMarkers[e]
         unit == UnitOf(em.overlay.content)
         meters == Meters(unit, newValue)
         newPosition == NewPosition(em.p1, em.p2, meters)
         far == (em.i + 1) % Len(vertices)
     IN IF newValue = NaN
        THEN /\ touchedEdges' = {}
             /\ UNCHANGED <<tempPolyline, vertices, vertexMarkers, edgeMarkers,
                            surface>>
        ELSE /\ Representable(em.p1, em.p2, meters)
             /\ vertices' = SetAt(vertices, far, newPosition)
             /\ IF far < Len(vertexMarkers)
                THEN /\ vertexMarkers' = [vertexMarkers EXCEPT
                          ![far + 1].position = newPosition]
                     /\ tempPolyline' = IF tempPolyline # Null
                                        THEN Some(ClosedPath(vertices'))
                                        ELSE tempPolyline
                     /\ edgeMarkers' = UpdateEdgeMarkers(vertices')
                     /\ surface' = WithEdgeMarkers(surface, edgeMarkers,
                                                   edgeMarkers')
                     /\ touchedEdges' = Touched(edgeMarkers, edgeMarkers')
                \* vertexMarkers[far] is undefined: setPosition throws
                ELSE /\ touchedEdges' = {}
                     /\ UNCHANGED <<tempPolyline, vertexMarkers, edgeMarkers,
                                    surface>>

\* onClick of the <Polygon> of fieldPolygons[f], with the insert_at listener
\* of onPolygonComplete that path.insertAt triggers
PolygonClick(f, edge, vertex, latLng) ==
  /\ drag.kind = "none"
  /\ f \in 1..Len(fieldPolygons)
  /\ Dispatch(Event("polygonClick", latLng, f, edge, vertex, Undefined, ""))
  /\ UNCHANGED <<isDrawingMode, areaUpdates, closure, surface, drag>>
  /\ touchedEdges' = {}
  /\ IF edge # Undefined /\ vertex = Undefined /\ latLng # NoLatLng
     THEN /\ Len(fieldPolygons[f].path) < MaxVerts
          /\ LET index == EdgeInsertIndex(edge)
                 path == InsertAt(fieldPolygons[f].path, index, latLng)
                 markers == InsertAt(fieldPolygons[f].vertexMarkers, index,
                                     NewPolygonMarker(index, At(path, index)))
             IN fieldPolygons' = [fieldPolygons EXCEPT
                  ![f].path = path, ![f].vertexMarkers = markers]
     ELSE UNCHANGED fieldPolygons

\* 'drag' of the vertex marker at list position k of fieldPolygons[f]; the
\* library has moved the dragged marker to e.latLng
PolygonMarkerDrag(f, k, latLng) ==
  /\ drag.kind = "none"
  /\ f \in 1..Len(fieldPolygons)
  /\ k \in 1..Len(fieldPolygons[f].vertexMarkers)
  /\ Dispatch(Event("polygonMarkerDrag", latLng, f, k, Undefined, Undefined, ""))
  /\ UNCHANGED <<isDrawingMode, areaUpdates, closure, surface, drag>>
  /\ touchedEdges' = {}
  /\ IF latLng = NoLatLng
     THEN UNCHANGED fieldPolygons
     ELSE LET i == fieldPolygons[f].vertexMarkers[k].index
          IN fieldPolygons' = [fieldPolygons EXCEPT
               ![f].path = SetAt(@, i, latLng),
               ![f].vertexMarkers[k].position = latLng,
               ![f].edgeMarkers = AddEdgeMarkers(fieldPolygons[f].path)]

\* the entry at index k is removed from the path of fieldPolygons[f], a ring
\* that keeps at least 3 entries: the shape is editable and its path is an
\* MVCArray whose removeAt the undo of the shape's own handles calls.
\* onPolygonComplete registers an 'insert_at' listener on the path and no
\* 'remove_at' listener, so that nothing of the component runs
PathRemoveAt(f, k) ==
  /\ drag.kind = "none"
  /\ f \in 1..Len(fieldPolygons)
  /\ Len(fieldPolygons[f].path) > 3
  /\ k \in 0..(Len(fieldPolygons[f].path) - 1)
  /\ Dispatch(Event("pathRemoveAt", NoLatLng, f, k, Undefined, Undefined, ""))
  /\ UNCHANGED <<isDrawingMode, areaUpdates, closure, surface, drag>>
  /\ touchedEdges' = {}
  /\ fieldPolygons' = [fieldPolygons EXCEPT ![f].path = RemoveAt(@, k)]

\* the host removes the component while it is Idle, Drawing or in a drag:
\* React runs the cleanup function of the last run of the effect
Unmount ==
  /\ Dispatch(Event("unmount", NoLatLng, 0, Undefined, Undefined, Undefined, ""))
  /\ surface' = EffectCleanup(surface, tempPolyline, vertexMarkers, edgeMarkers)
  /\ touchedEdges' = Touched(edgeMarkers, <<>>)
  /\ mapClickListener' = FALSE
  /\ mapDblClickListener' = FALSE
  /\ UNCHANGED <<isDrawingMode, fieldPolygons, areaUpdates, tempPolyline,
                 vertices, vertexMarkers, edgeMarkers, nextId, drag>>

\* ---------------------------------------------------------------- Next
LatLngs == InputPoints \cup {NoLatLng}

CreateOptionStep == \E option \in {"import", "field", "distance", "marker"} :
                      HandleCreateOption(option)
MapClickStep == \E latLng \in LatLngs : MapClick(latLng)
VertexDragStartStep == \E id \in 1..MaxVerts : VertexDragStart(id)
VertexDragStep == \E latLng \in LatLngs : VertexDrag(latLng)
EdgeDragStartStep == \E e \in 1..MaxVerts : EdgeDragStart(e)
EdgeDragStep == \E latLng \in LatLngs : EdgeDrag(latLng)
EdgeDragEndStep == \E latLng \in LatLngs : EdgeDragEnd(latLng)
DistanceSubmitStep == \E e \in 1..MaxVerts, newValue \in TypedValues :
                        DistanceSubmit(e, newValue)
PolygonClickStep ==
  \E f \in 1..Len(fieldPolygons), edge \in Undefined..(MaxVerts - 1),
     vertex \in Undefined..(MaxVerts - 1), latLng \in LatLngs :
       /\ edge < Len(fieldPolygons[f].path)
       /\ vertex < Len(fieldPolygons[f].path)
       /\ edge = Undefined \/ vertex = Undefined
       /\ PolygonClick(f, edge, vertex, latLng)
PolygonMarkerDragStep ==
  \E f \in 1..Len(fieldPolygons), k \in 1..MaxVerts, latLng \in LatLngs :
    PolygonMarkerDrag(f, k, latLng)

Next ==
  \/ CreateOptionStep
  \/ MapClickStep
  \/ MapDblClick
  \/ VertexDragStartStep
  \/ VertexDragStep
  \/ VertexDragEnd
  \/ EdgeDragStartStep
  \/ EdgeDragStep
  \/ EdgeDragEndStep
  \/ DistanceSubmitStep
  \/ PolygonClickStep
  \/ PolygonMarkerDragStep
  \/ Unmount

Spec == Init /\ [][Next]_vars

SpecLong == InitLong /\ [][Next]_vars

\* the user chooses 'field', draws with clicks on the map only, and drags the
\* vertex markers of the registered shapes
NextShapes ==
  \/ HandleCreateOption("field")
  \/ \E latLng \in InputPoints : MapClick(latLng)
  \/ MapDblClick
  \/ PolygonMarkerDragStep

SpecShapes == InitShapes /\ [][NextShapes]_vars

PathRemoveStep ==
  \E f \in 1..Len(fieldPolygons), k \in 0..(MaxVerts - 1) : PathRemoveAt(f, k)

\* the events of Next and the removal of an entry from the path of a shape
NextRemoval ==
  \/ Next
  \/ PathRemoveStep

SpecRemoval == InitLong /\ [][NextRemoval]_vars

\* the distanceText of updateEdgeMarkers, applied to the distance of label
FormatLabel ==
  /\ label # Null
  /\ label.text = Null
  /\ \E text \in FormatDistance(label.distance) :
       label' = [label EXCEPT !.text = Some(text)]
  /\ UNCHANGED <<isDrawingMode, fieldPolygons, areaUpdates, closure, surface,
                 touchedEdges, isMounted, drag, lastEvent, budget>>

SpecFormat == InitFormat /\ [][FormatLabel]_vars

\* ---------------------------------------------------------------- claims
\* the step hands an event of this type to its handler
Handled(type) == budget' = budget - 1 /\ lastEvent'.type = type

Last(s) == s[Len(s)]

\* C1: a double-click while Drawing on a ring of at least 3 vertices closes
\* the session and registers exactly one shape whose ring is the ring just
\* before the double-click (the handler appends nothing); every click before
\* it appended its point as the last ring entry, so the ring is the clicked
\* points in click order.
C1_CloseRegistersClickedRing ==
  [][/\ (Handled("dblclick") /\ isDrawingMode /\ Len(vertices) >= 3) =>
          /\ ~isDrawingMode'
          /\ ~mapClickListener' /\ ~mapDblClickListener'
          /\ Len(fieldPolygons') = Len(fieldPolygons) + 1
          /\ SubSeq(fieldPolygons', 1, Len(fieldPolygons)) = fieldPolygons
          /\ Last(fieldPolygons').path = vertices
     /\ (Handled("click") /\ isDrawingMode /\ lastEvent'.latLng # NoLatLng) =>
          /\ vertices' = Append(vertices, lastEvent'.latLng)
          /\ fieldPolygons' = fieldPolygons
    ]_vars

\* Scenario 1: three clicks and a double-click registered the clicked triangle
C1_Witness ==
  /\ lastEvent.type = "dblclick"
  /\ ~isDrawingMode
  /\ Len(fieldPolygons) = 1
  /\ fieldPolygons[1].path = <<<<0, 0>>, <<0, 2>>, <<2, 2>>>>

\* C2: a double-click while Drawing on a ring of fewer than 3 vertices changes
\* nothing: mode, ring, vertex markers, edge markers, polyline, listeners and
\* registry are as before.
C2_PrematureCloseIsNoOp ==
  [][(Handled("dblclick") /\ isDrawingMode /\ Len(vertices) < 3) =>
        UNCHANGED <<isDrawingMode, fieldPolygons, areaUpdates, tempPolyline, vertices,
                    vertexMarkers, edgeMarkers, mapClickListener,
                    mapDblClickListener>>
    ]_vars

\* Scenario 2: the double-click after two clicks left the session Drawing
C2_Witness ==
  /\ lastEvent.type = "dblclick"
  /\ isDrawingMode
  /\ mapClickListener /\ mapDblClickListener
  /\ Len(vertices) = 2
  /\ Len(vertexMarkers) = 2
  /\ fieldPolygons = <<>>

\* the sequence s with x put at 0-based index i (0 <= i <= Len(s))
WithInserted(s, i, x) == SubSeq(s, 1, i) \o <<x>> \o SubSeq(s, i + 1, Len(s))

\* the sequence s with the entry at 0-based index i replaced by x
WithReplaced(s, i, x) ==
  SubSeq(s, 1, i) \o <<x>> \o SubSeq(s, i + 2, Len(s))

Max(a, b) == IF a > b THEN a ELSE b

\* C3: after every handler the number of vertex markers equals the ring
\* length, for the open ring and for every registered shape.
C3_VertexMarkerCountIsRingLength ==
  /\ Len(vertexMarkers) = Len(vertices)
  /\ \A f \in 1..Len(fieldPolygons) :
       Len(fieldPolygons[f].vertexMarkers) = Len(fieldPolygons[f].path)

\* C4: the number of edge markers (a midpoint handle with its distance label)
\* is the ring length for a registered shape and max(0, ring length - 1) for
\* the open ring.
C4_EdgeMarkerCountIsEdgeCount ==
  /\ Len(edgeMarkers) = Max(0, Len(vertices) - 1)
  /\ \A f \in 1..Len(fieldPolygons) :
       Len(fieldPolygons[f].edgeMarkers) = Len(fieldPolygons[f].path)

\* C5: after every handler the vertex marker at list position k is displayed
\* at ring entry k, for the open ring and for every registered shape.
C5_MarkerShowsItsRingEntry ==
  /\ \A k \in 1..Len(vertexMarkers) :
       /\ k <= Len(vertices)
       /\ vertexMarkers[k].position = vertices[k]
  /\ \A f \in 1..Len(fieldPolygons) :
       \A k \in 1..Len(fieldPolygons[f].vertexMarkers) :
         /\ k <= Len(fieldPolygons[f].path)
         /\ fieldPolygons[f].vertexMarkers[k].position = fieldPolygons[f].path[k]

\* C6: dragging the vertex marker at list position i of a registered shape to
\* p replaces ring entry i by p and leaves the rest of the ring as it was.
C6_ShapeVertexDragReplacesItsEntry ==
  [][(Handled("polygonMarkerDrag") /\ lastEvent'.latLng # NoLatLng) =>
        LET f == lastEvent'.f
            i == lastEvent'.index - 1
        IN fieldPolygons'[f].path =
             WithReplaced(fieldPolygons[f].path, i, lastEvent'.latLng)
    ]_vars

\* C7: an edge-click on a registered shape at edge e and point p puts p at
\* ring index e+1, keeps the entries before it, shifts the later ones up by
\* one, and puts one new vertex marker, displayed at p, at list position e+1,
\* the other markers keeping their order; marker count equals ring length.
C7_EdgeClickInsertsAfterEdge ==
  [][(/\ Handled("polygonClick")
      /\ lastEvent'.index # Undefined
      /\ lastEvent'.vertex = Undefined
      /\ lastEvent'.latLng # NoLatLng) =>
        LET f == lastEvent'.f
            e == lastEvent'.index
            p == lastEvent'.latLng
            old == fieldPolygons[f]
            new == fieldPolygons'[f]
        IN /\ new.path = WithInserted(old.path, e + 1, p)
           /\ Len(new.vertexMarkers) = Len(new.path)
           /\ new.vertexMarkers[e + 2].position = p
           /\ SubSeq(new.vertexMarkers, 1, e + 1)
                = SubSeq(old.vertexMarkers, 1, e + 1)
           /\ SubSeq(new.vertexMarkers, e + 3, Len(new.vertexMarkers))
                = SubSeq(old.vertexMarkers, e + 2, Len(old.vertexMarkers))
    ]_vars

\* Scenario 3: an edge-click on edge 0 of a closed triangle gave a ring of 4
C7_Witness ==
  /\ lastEvent.type = "polygonClick"
  /\ lastEvent.index = 0
  /\ lastEvent.vertex = Undefined
  /\ lastEvent.latLng # NoLatLng
  /\ Len(fieldPolygons) = 1
  /\ Len(fieldPolygons[1].path) = 4
  /\ fieldPolygons[1].path[2] = lastEvent.latLng
  /\ Len(fieldPolygons[1].vertexMarkers) = 4

\* C8: the drag-end at q of a midpoint-handle drag on edge i leaves the ring
\* the drag started from with q inserted at index i+1, one new vertex marker,
\* displayed at q, at list position i+1 with the other markers in their
\* order, and the edge markers rebuilt for the new ring.
C8_MidpointDragInsertsVertex ==
  [][(Handled("edgeDragEnd") /\ lastEvent'.latLng # NoLatLng) =>
        LET em == edgeMarkers[drag.target]
            i == em.i
            q == lastEvent'.latLng
            original == em.marker.originalVertices[1]
        IN /\ vertices' = WithInserted(original, i + 1, q)
           /\ Len(vertexMarkers') = Len(vertexMarkers) + 1
           /\ i + 1 <= Len(vertexMarkers)
           /\ vertexMarkers'[i + 2].position = q
           /\ SubSeq(vertexMarkers', 1, i + 1) = SubSeq(vertexMarkers, 1, i + 1)
           /\ SubSeq(vertexMarkers', i + 3, Len(vertexMarkers'))
                = SubSeq(vertexMarkers, i + 2, Len(vertexMarkers))
           /\ edgeMarkers' = UpdateEdgeMarkers(vertices')
    ]_vars

\* C9: a midpoint-handle drag whose drag-end carries no position leaves the
\* ring as it was before the drag-start: the provisional vertex is removed.
C9_AbortedDragRestoresRing ==
  [][(Handled("edgeDragEnd") /\ lastEvent'.latLng = NoLatLng) =>
        vertices' = edgeMarkers[drag.target].marker.originalVertices[1]
    ]_vars

\* C10: a distance-label edit on edge i of a ring of length n, whose current
\* length is not 0, replaces only ring[(i+1) mod n], by
\* anchor + (far - anchor) * (desired / current) with anchor = ring[i] and
\* far = ring[(i+1) mod n], and moves the vertex marker at (i+1) mod n there;
\* the other ring entries and markers stay.
C10_DistanceEditMovesOnlyFarVertex ==
  [][(Handled("distanceSubmit") /\ lastEvent'.value # NaN) =>
        LET e == lastEvent'.index
            i == e - 1
            n == Len(vertices)
            farIndex == (i + 1) % n
            anchor == At(vertices, i)
            far == At(vertices, farIndex)
            desired == IF edgeMarkers[e].overlay.content.unit = "km"
                       THEN lastEvent'.value * 1000 ELSE lastEvent'.value
            moved == NewPosition(anchor, far, desired)
        IN (Dist(anchor, far) # 0 /\ Dist(anchor, far) # NaN) =>
             /\ vertices' = WithReplaced(vertices, farIndex, moved)
             /\ farIndex < Len(vertexMarkers)
             /\ vertexMarkers' =
                  WithReplaced(vertexMarkers, farIndex,
                    [At(vertexMarkers, farIndex) EXCEPT !.position = moved])
    ]_vars

\* C11: a distance-label edit on an edge whose anchor and far vertex coincide
\* (current length 0) is ignored: ring, vertex markers and edge markers stay
\* as they were and no ring coordinate becomes non-finite.
C11_DegenerateEdgeEditIsIgnored ==
  [][(Handled("distanceSubmit") /\ Len(vertices) >= 2) =>
        LET i == lastEvent'.index - 1
            anchor == At(vertices, i)
            far == At(vertices, (i + 1) % Len(vertices))
        IN (~IsNaNPoint(anchor) /\ anchor = far) =>
             /\ UNCHANGED <<vertices, vertexMarkers, edgeMarkers>>
             /\ \A k \in 1..Len(vertices') : ~IsNaNPoint(vertices'[k])
    ]_vars

\* the rings of the registered shapes, in registry order
Rings(polygons) == [f \in 1..Len(polygons) |-> polygons[f].path]

\* C12: every handler that registers a shape or changes a ring entry of a
\* registered shape (vertex drag, edge-click insertion) invokes the host
\* callback once more, with the total recomputed from the new rings.
C12_HostNotifiedOnEveryAreaChange ==
  [][(Rings(fieldPolygons') # Rings(fieldPolygons)) =>
        areaUpdates' = Append(areaUpdates, TotalArea(fieldPolygons'))
    ]_vars

\* sum of the areas, in square metres, of the first k registered rings
RECURSIVE SumOfAreas(_, _)
SumOfAreas(polygons, k) ==
  IF k = 0 THEN 0 ELSE SumOfAreas(polygons, k - 1) + ComputeArea(polygons[k].path)

\* every coordinate of every registered ring is a finite number
FiniteRings(polygons) ==
  \A f \in 1..Len(polygons) :
    \A k \in 1..Len(polygons[f].path) : ~IsNaNPoint(polygons[f].path[k])

\* C13: the total handed to the host (kept in hundredths of a hectare) is the
\* sum over all registered shapes of the area of the ring in square metres
\* divided by 10000.
C13_ReportedTotalIsSumOfAreas ==
  [][(areaUpdates' # areaUpdates /\ FiniteRings(fieldPolygons')) =>
        /\ Len(areaUpdates') = Len(areaUpdates) + 1
        /\ Last(areaUpdates') * 10000 =
             SumOfAreas(fieldPolygons', Len(fieldPolygons')) * 100
    ]_vars

\* Scenario 5: two rings of 50 hectares each are registered and the host was
\* told 50, then 100 hectares
C13_Witness ==
  /\ Len(fieldPolygons) = 2
  /\ ComputeArea(fieldPolygons[1].path) = 500000
  /\ ComputeArea(fieldPolygons[2].path) = 500000
  /\ areaUpdates = <<5000, 10000>>

C15_SingleDrawingSession ==
  [][/\ (mapClickListener' \/ mapDblClickListener') => isDrawingMode'
     /\ ~isDrawingMode' =>
          (vertices' = <<>> /\ vertexMarkers' = <<>> /\ tempPolyline' = Null)
     /\ (Handled("createOption") /\ isDrawingMode) =>
          UNCHANGED <<isDrawingMode, tempPolyline, vertices, vertexMarkers,
                      edgeMarkers, mapClickListener, mapDblClickListener>>
    ]_vars

\* 'field' was chosen again after two clicks of a session, which goes on
C15_Witness ==
  /\ lastEvent.type = "createOption"
  /\ lastEvent.option = "field"
  /\ isDrawingMode
  /\ mapClickListener /\ mapDblClickListener
  /\ Len(vertices) = 2

C17_NoDanglingVisuals ==
  LET Live(n) == IF isMounted THEN n ELSE 0
  IN /\ surface.polylines <= Live(IF tempPolyline # Null THEN 1 ELSE 0)
     /\ surface.vertexMarkers <= Live(Len(vertexMarkers))
     /\ surface.edgeMarkers <= Live(Len(edgeMarkers))
     /\ surface.dragMarkers
          <= Live(DragMarkers(vertexMarkers) + DragMarkers(edgeMarkers))

\* C18: every registered ring has at least 3 entries in every state, and the
\* ring a completed session registers has one entry per vertex of the open
\* ring: the first vertex is not stored again as a closing last entry.
C18_RegisteredRingsAreOpenLists ==
  [][/\ \A f \in 1..Len(fieldPolygons') : Len(fieldPolygons'[f].path) >= 3
     /\ Len(fieldPolygons') > Len(fieldPolygons) =>
          /\ Len(Last(fieldPolygons').path) = Len(vertices)
          /\ \A k \in 1..Len(vertices) :
               Last(fieldPolygons').path[k] = vertices[k]
    ]_vars

\* a triangle is registered with its 3 vertices, the last one not the first
C18_Witness ==
  /\ lastEvent.type = "dblclick"
  /\ Len(fieldPolygons) = 1
  /\ Len(fieldPolygons[1].path) = 3
  /\ fieldPolygons[1].path[3] # fieldPolygons[1].path[1]

C20_LabelTextFormat ==
  (label # Null /\ label.text # Null) =>
    LET d == label.distance
        text == label.text[1]
    IN IF d < 10000
       THEN text.unit = "m" /\ Abs(text.num * 10 - d) <= 5
       ELSE text.unit = "km" /\ Abs(text.num * 100 - d) <= 50

\* an edge of exactly 1000 m is labelled 1.00km
C20_Witness ==
  label = [distance |-> 10000, text |-> Some([num |-> 100, unit |-> "km"])]

\* C21: distance-edit round trip: after a distance-label edit to L' > 0 on
\* edge i of a ring whose entries ring[i] = A and ring[(i+1) mod n] = B are
\* at a non-zero distance, the distance from A to the new ring[(i+1) mod n]
\* is L'.  (The edits the grid represents are exact, so the tolerance is 0.)
C21_DistanceEditRoundTrip ==
  [][(Handled("distanceSubmit") /\ lastEvent'.value # NaN) =>
        LET em == edgeMarkers[lastEvent'.index]
            n == Len(vertices)
            A == At(vertices, em.i)
            B == At(vertices, (em.i + 1) % n)
            desired == IF em.overlay.content.unit = "km"
                       THEN lastEvent'.value * 1000 ELSE lastEvent'.value
            moved == At(vertices', (em.i + 1) % n)
        IN (Dist(A, B) # 0 /\ Dist(A, B) # NaN /\ desired > 0) =>
             Dist(A, moved) = desired
    ]_vars

\* C22: the path a handler gives the polyline (click, vertex drag, midpoint
\* drag step, midpoint drag-end, distance edit) is, for a ring of n >= 3
\* vertices, the ring followed by its first point (length n+1, last = first)
\* and, for a ring of n < 3 vertices, the ring itself.
C22_RenderedPathIsClosedFromThree ==
  [][(/\ lastEvent'.type \in {"click", "vertexDrag", "edgeDrag", "edgeDragEnd",
                              "distanceSubmit"}
      /\ tempPolyline' # tempPolyline) =>
        LET path == tempPolyline'[1]
            n == Len(vertices')
        IN /\ tempPolyline' # Null
           /\ SubSeq(path, 1, n) = vertices'
           /\ IF n >= 3
              THEN Len(path) = n + 1 /\ path[n + 1] = path[1]
              ELSE Len(path) = n
    ]_vars

\* a midpoint drag step on a ring of 2 vertices drew the 3 entries of the
\* ring and its first point again
C22_Witness ==
  /\ lastEvent.type = "edgeDrag"
  /\ lastEvent.latLng # NoLatLng
  /\ Len(vertices) = 3
  /\ tempPolyline # Null
  /\ Len(tempPolyline[1]) = 4
  /\ tempPolyline[1][4] = tempPolyline[1][1]
  /\ tempPolyline[1][2] = lastEvent.latLng

\* C23: every index a handler uses to read or write the ring or the list of
\* vertex markers is inside the list it indexes (an insertion index may be
\* the length): the far-vertex index of a distance edit in the ring and in
\* the marker list, the in-flight index of a midpoint drag, the list position
\* of a dragged vertex marker, the captured index of a shape's marker and the
\* insertion index of an edge-click; so that no handler fails.
C23_IndicesInRange ==
  [][LET e == lastEvent'.index
         latLng == lastEvent'.latLng
     IN /\ (Handled("distanceSubmit") /\ lastEvent'.value # NaN) =>
             LET far == (edgeMarkers[e].i + 1) % Len(vertices)
             IN far \in 0..(Len(vertices) - 1)
                /\ far \in 0..(Len(vertexMarkers) - 1)
        /\ Handled("edgeDragStart") =>
             edgeMarkers[e].i + 1 \in 0..Len(vertices)
        /\ (Handled("edgeDrag") /\ latLng # NoLatLng) =>
             edgeMarkers[e].marker.tempVertexIndex \in 0..(Len(vertices) - 1)
        /\ (Handled("edgeDragEnd") /\ latLng # NoLatLng) =>
             /\ edgeMarkers[e].marker.tempVertexIndex \in 0..(Len(vertices) - 1)
             /\ edgeMarkers[e].marker.tempVertexIndex \in 0..Len(vertexMarkers)
        /\ (Handled("vertexDrag") /\ latLng # NoLatLng) =>
             IndexOf(vertexMarkers, e) \in 0..(Len(vertices) - 1)
        /\ (Handled("polygonMarkerDrag") /\ latLng # NoLatLng) =>
             LET polygon == fieldPolygons[lastEvent'.f]
             IN polygon.vertexMarkers[e].index \in 0..(Len(polygon.path) - 1)
        /\ (/\ Handled("polygonClick") /\ e # Undefined
            /\ lastEvent'.vertex = Undefined /\ latLng # NoLatLng) =>
             e + 1 \in 0..Len(fieldPolygons[lastEvent'.f].path)
    ]_vars

\* C24: while no session is Drawing (before 'field' is chosen, or after the
\* session was closed) a click on the map appends no vertex and creates no
\* marker, a double-click on the map registers no shape, and neither changes
\* a registered ring, the mode or the listeners: a closed session stays
\* closed.
C24_SurfaceEventsOnlyWhileDrawing ==
  [][((Handled("click") \/ Handled("dblclick")) /\ ~isDrawingMode) =>
        /\ UNCHANGED <<isDrawingMode, fieldPolygons, areaUpdates, tempPolyline,
                       vertices, vertexMarkers, edgeMarkers, mapClickListener,
                       mapDblClickListener, surface>>
        /\ ~mapClickListener /\ ~mapDblClickListener
        /\ vertices = <<>> /\ vertexMarkers = <<>>
    ]_vars

\* a click at a point of the map after the session was closed: the registry
\* holds the one shape and there is no open ring
C24_Witness ==
  /\ lastEvent.type = "click"
  /\ lastEvent.latLng # NoLatLng
  /\ ~isDrawingMode
  /\ Len(fieldPolygons) = 1
  /\ vertices = <<>>
  /\ vertexMarkers = <<>>

\* C25: a click on the map at p while Drawing appends p as the last ring
\* entry (the earlier entries stay), creates exactly one vertex marker, at p
\* and last in the list (the earlier markers stay), and leaves edge markers,
\* each made for an edge of the new ring, when that ring has at least 2
\* entries and no edge marker otherwise; a ring of 0 or 1 entries never has
\* edge markers.
C25_ClickAppendsVertexAndMarker ==
  [][/\ (Handled("click") /\ isDrawingMode /\ lastEvent'.latLng # NoLatLng) =>
          LET p == lastEvent'.latLng
          IN /\ vertices' = Append(vertices, p)
             /\ Len(vertexMarkers') = Len(vertexMarkers) + 1
             /\ SubSeq(vertexMarkers', 1, Len(vertexMarkers)) = vertexMarkers
             /\ Last(vertexMarkers').position = p
             /\ \A k \in 1..Len(vertexMarkers) :
                  vertexMarkers[k].id # Last(vertexMarkers').id
             /\ surface'.vertexMarkers = surface.vertexMarkers + 1
             /\ IF Len(vertices') >= 2
                THEN /\ edgeMarkers' # <<>>
                     /\ \A e \in 1..Len(edgeMarkers') :
                          LET i == edgeMarkers'[e].i
                          IN /\ edgeMarkers'[e].p1 = At(vertices', i)
                             /\ edgeMarkers'[e].p2 =
                                  At(vertices', (i + 1) % Len(vertices'))
                ELSE edgeMarkers' = <<>>
     /\ Len(vertices') <= 1 => edgeMarkers' = <<>>
    ]_vars

\* the second click of a session: two ring entries, two markers, the last at
\* the clicked point, and the edge markers of the ring
C25_Witness ==
  /\ lastEvent.type = "click"
  /\ lastEvent.latLng # NoLatLng
  /\ isDrawingMode
  /\ Len(vertices) = 2
  /\ Last(vertices) = lastEvent.latLng
  /\ Len(vertexMarkers) = 2
  /\ Last(vertexMarkers).position = lastEvent.latLng
  /\ Len(edgeMarkers) = 2

\* C26: the double-click that closes a session (ring of at least 3 entries)
\* takes the polyline, every vertex marker and every edge marker of the
\* session off the map, removes both map listeners, registers the shape and
\* switches drawing mode off, all in that one step; the registered shape has
\* one vertex marker per ring entry, displayed at that entry.
C26_CloseDisposesSessionAndEquipsShape ==
  [][(Handled("dblclick") /\ isDrawingMode /\ Len(vertices) >= 3) =>
        /\ surface'.polylines = 0
        /\ surface'.vertexMarkers = 0
        /\ surface'.edgeMarkers = 0
        /\ tempPolyline' = Null
        /\ vertexMarkers' = <<>>
        /\ edgeMarkers' = <<>>
        /\ ~mapClickListener' /\ ~mapDblClickListener'
        /\ ~isDrawingMode'
        /\ Len(fieldPolygons') = Len(fieldPolygons) + 1
        /\ LET shape == Last(fieldPolygons')
           IN /\ Len(shape.vertexMarkers) = Len(shape.path)
              /\ \A k \in 1..Len(shape.path) :
                   shape.vertexMarkers[k].position = shape.path[k]
    ]_vars

\* a session of 3 clicks was closed: nothing of the session is on the map and
\* the registered triangle has its 3 vertex markers at its 3 corners
C26_Witness ==
  /\ lastEvent.type = "dblclick"
  /\ ~isDrawingMode
  /\ surface = [polylines |-> 0, vertexMarkers |-> 0, edgeMarkers |-> 0,
                dragMarkers |-> 0]
  /\ ~mapClickListener /\ ~mapDblClickListener
  /\ Len(fieldPolygons) = 1
  /\ Len(fieldPolygons[1].path) = 3
  /\ Len(fieldPolygons[1].vertexMarkers) = 3
  /\ \A k \in 1..3 :
       fieldPolygons[1].vertexMarkers[k].position = fieldPolygons[1].path[k]

\* C27: a drag step of a midpoint-handle drag on edge i with the pointer at p
\* replaces ring[i+1], the in-flight entry, by p and nothing else: the ring
\* length and the other ring entries, the list of vertex markers, and the
\* edge markers (their number, the edge each was made for and its label) are
\* as before, and no visual is put on or taken off the map.
C27_MidpointDragStepReplacesInFlightEntry ==
  [][(Handled("edgeDrag") /\ lastEvent'.latLng # NoLatLng) =>
        LET i == edgeMarkers[drag.target].i
        IN /\ vertices' = WithReplaced(vertices, i + 1, lastEvent'.latLng)
           /\ vertexMarkers' = vertexMarkers
           /\ Len(edgeMarkers') = Len(edgeMarkers)
           /\ \A e \in 1..Len(edgeMarkers) :
                /\ edgeMarkers'[e].i = edgeMarkers[e].i
                /\ edgeMarkers'[e].p1 = edgeMarkers[e].p1
                /\ edgeMarkers'[e].p2 = edgeMarkers[e].p2
                /\ edgeMarkers'[e].overlay = edgeMarkers[e].overlay
           /\ surface' = surface
    ]_vars

\* a drag step of the handle of edge 0 of a ring of 2 vertices: the ring has
\* the pointer position at index 1 between the two clicked vertices, and
\* still 2 vertex markers and 2 edge markers
C27_Witness ==
  /\ lastEvent.type = "edgeDrag"
  /\ lastEvent.latLng = <<2, 2>>
  /\ drag = [kind |-> "edge", target |-> 1]
  /\ vertices = <<<<0, 0>>, <<2, 2>>, <<0, 2>>>>
  /\ Len(vertexMarkers) = 2
  /\ Len(edgeMarkers) = 2

\* C28: a drag step of the vertex marker at list position k is a pure
\* coordinate edit: the vertex markers keep their identities and list
\* positions, and the only edge markers taken off the map or made are those
\* of the two edges that end at ring[k] (edge k and edge k-1 mod n); the edge
\* markers of the other edges are neither destroyed nor recreated.
C28_VertexMoveTouchesAdjacentEdgesOnly ==
  [][(Handled("vertexDrag") /\ lastEvent'.latLng # NoLatLng) =>
        LET k == IndexOf(vertexMarkers, drag.target)
            n == Len(vertices)
        IN /\ Len(vertexMarkers') = Len(vertexMarkers)
           /\ \A j \in 1..Len(vertexMarkers) :
                vertexMarkers'[j].id = vertexMarkers[j].id
           /\ touchedEdges' \subseteq {k, (k + n - 1) % n}
    ]_vars

\* C29: when the entry at index k is removed from the ring of a registered
\* shape, the vertex marker at list position k leaves the marker list, the
\* later markers move down by one, and the number of vertex markers is again
\* the ring length.
C29_RemovalDisposesItsVertexMarker ==
  [][Handled("pathRemoveAt") =>
        LET f == lastEvent'.f
            k == lastEvent'.index
            old == fieldPolygons[f]
            new == fieldPolygons'[f]
        IN /\ new.path = RemoveAt(old.path, k)
           /\ new.vertexMarkers = RemoveAt(old.vertexMarkers, k)
           /\ Len(new.vertexMarkers) = Len(new.path)
    ]_vars

\* C30: after every handler each edge marker shows the current ring: the
\* handle and the label of edge i are at the midpoint of ring[i] and
\* ring[(i+1) mod n], the label is the formatted current length of that edge,
\* and the endpoints its distance-edit handler uses are the current ring[i]
\* and ring[(i+1) mod n].
C30_EdgeMarkersShowCurrentRing ==
  \A e \in 1..Len(edgeMarkers) :
    LET em == edgeMarkers[e]
        n == Len(vertices)
        p1 == At(vertices, em.i)
        p2 == At(vertices, (em.i + 1) % n)
    IN /\ em.marker.position = Midpoint(p1, p2)
       /\ em.overlay.position = Midpoint(p1, p2)
       /\ em.overlay.content = DistanceText(Dist(p1, p2))
       /\ em.p1 = p1
       /\ em.p2 = p2

\* C31: while Drawing, a drag step to p of the vertex marker that is at list
\* position k replaces ring[k] by p and nothing else: the ring length and the
\* other ring entries stay, and the list of vertex markers keeps its markers
\* in their order, the dragged one now displayed at p; also after clicks and
\* completed midpoint insertions have changed the marker's list position.
C31_DrawingVertexDragReplacesItsEntry ==
  [][(Handled("vertexDrag") /\ isDrawingMode /\ lastEvent'.latLng # NoLatLng) =>
        LET p == lastEvent'.latLng
            k == (CHOOSE j \in 1..Len(vertexMarkers) :
                    vertexMarkers[j].id = drag.target) - 1
        IN /\ vertices' = WithReplaced(vertices, k, p)
           /\ Len(vertexMarkers') = Len(vertexMarkers)
           /\ \A j \in 1..Len(vertexMarkers) :
                IF j = k + 1
                THEN /\ vertexMarkers'[j].id = vertexMarkers[j].id
                     /\ vertexMarkers'[j].position = p
                ELSE vertexMarkers'[j] = vertexMarkers[j]
    ]_vars

\* the marker of the second click, moved to list position 2 by a completed
\* midpoint insertion at index 1, was dragged: ring[2] is the pointer position
C31_Witness ==
  /\ lastEvent.type = "vertexDrag"
  /\ lastEvent.latLng # NoLatLng
  /\ isDrawingMode
  /\ drag = [kind |-> "vertex", target |-> 2]
  /\ Len(vertices) = 3
  /\ Len(vertexMarkers) = 3
  /\ vertexMarkers[2].id = 3
  /\ vertexMarkers[3].id = 2
  /\ vertices[3] = lastEvent.latLng
  /\ vertices[3] # vertices[2]

\* C32: every new Drawing Session starts with an empty ring, no vertex
\* markers, no edge markers and an empty polyline, whatever an earlier
\* session clicked or left; and the events of a session (clicks, drags of the
\* session's markers, distance edits, the double-click) leave every ring
\* that is already registered as it was.
C32_NewSessionStartsEmpty ==
  [][/\ (/\ Handled("createOption") /\ lastEvent'.option = "field"
         /\ ~isDrawingMode) =>
          /\ isDrawingMode'
          /\ vertices' = <<>>
          /\ vertexMarkers' = <<>>
          /\ edgeMarkers' = <<>>
          /\ tempPolyline' = Some(<<>>)
          /\ fieldPolygons' = fieldPolygons
     /\ (isDrawingMode /\ lastEvent'.type \in
           {"click", "dblclick", "vertexDragStart", "vertexDrag",
            "vertexDragEnd", "edgeDragStart", "edgeDrag", "edgeDragEnd",
            "distanceSubmit"}) =>
          /\ Len(fieldPolygons') >= Len(fieldPolygons)
          /\ SubSeq(fieldPolygons', 1, Len(fieldPolygons)) = fieldPolygons
    ]_vars

\* a second session was started after a first one was closed with a triangle:
\* its ring is empty and the triangle is registered
C32_Witness ==
  /\ lastEvent.type = "createOption"
  /\ lastEvent.option = "field"
  /\ isDrawingMode
  /\ Len(fieldPolygons) = 1
  /\ Len(fieldPolygons[1].path) = 3
  /\ vertices = <<>>
  /\ vertexMarkers = <<>>
  /\ edgeMarkers = <<>>
  /\ tempPolyline = Some(<<>>)

\* C33: drawing mode is switched on only by the create option 'field', and
\* is switched off only by a double-click that closes a ring of at least 3
\* entries (the only other end of a session, the unmount, removes the
\* component); the options 'import', 'distance' and 'marker' leave the mode,
\* the open ring with its markers, polyline and listeners, and the registry
\* as they were.
C33_ModeFollowsFieldAndClose ==
  [][/\ (~isDrawingMode /\ isDrawingMode') =>
          (Handled("createOption") /\ lastEvent'.option = "field")
     /\ (isDrawingMode /\ ~isDrawingMode') =>
          \/ Handled("dblclick") /\ Len(vertices) >= 3
                                 /\ Len(fieldPolygons') = Len(fieldPolygons) + 1
          \/ Handled("unmount")
     /\ (/\ Handled("createOption")
         /\ lastEvent'.option \in {"import", "distance", "marker"}) =>
          UNCHANGED <<isDrawingMode, fieldPolygons, areaUpdates, tempPolyline,
                      vertices, vertexMarkers, edgeMarkers, mapClickListener,
                      mapDblClickListener, surface>>
    ]_vars

\* 'distance' was chosen while Drawing with two vertices: the session goes on
C33_Witness ==
  /\ lastEvent.type = "createOption"
  /\ lastEvent.option = "distance"
  /\ isDrawingMode
  /\ mapClickListener /\ mapDblClickListener
  /\ Len(vertices) = 2
  /\ Len(vertexMarkers) = 2
  /\ tempPolyline = Some(vertices)

\* C34: a submit of a distance label whose text does not parse as a number
\* calls no distance-change handler: the ring, the vertex markers, the edge
\* markers, the polyline and the registry are as before, and no edge marker
\* is taken off the map or made.
C34_UnparsableSubmitIsIgnored ==
  [][(Handled("distanceSubmit") /\ lastEvent'.value = NaN) =>
        /\ UNCHANGED <<vertices, vertexMarkers, edgeMarkers, tempPolyline,
                       fieldPolygons, surface>>
        /\ touchedEdges' = {}
    ]_vars

\* an unparsable text was submitted in the label of edge 0 of a ring of two
\* vertices, which are where they were clicked
C34_Witness ==
  /\ lastEvent.type = "distanceSubmit"
  /\ lastEvent.value = NaN
  /\ lastEvent.index = 1
  /\ vertices = <<<<0, 0>>, <<0, 2>>>>
  /\ Len(vertexMarkers) = 2
  /\ Len(edgeMarkers) = 2
  /\ edgeMarkers[1].p2 = <<0, 2>>

====
